---- MODULE Spec2Model ----
(***************************************************************************)
(* A model of waveform_analysis/consonance_analyser.py: main(wav_file)     *)
(* reads a recording, slices it into frames, takes a magnitude spectrum    *)
(* per frame, detects peaks, scores every pair of peaks by a small-integer *)
(* ratio search and returns 10 / (weighted average complexity).            *)
(*                                                                         *)
(* Numbers.  The code computes in IEEE doubles; the model computes the     *)
(* same quantities exactly, as integers and ratios of integers:            *)
(*   - a frequency freqs[k] = k * fs / win_len is the pair <<k*fs,         *)
(*     win_len>>;                                                          *)
(*   - a magnitude is a perfect square r*r, so that the relevance          *)
(*     sqrt(w_hi * w_lo) is rational; the two accumulators are kept in     *)
(*     units of 1/Scale, Scale being a common multiple of every max_amp;   *)
(*   - the score is the ratio <<num, den>>, NaN is the value NaN.          *)
(* The FFT itself is not computed: the spectrum of a frame whose windowed  *)
(* samples are all zero is all zero (as np.fft.rfft gives), and the        *)
(* spectrum of any other frame is chosen among the sparse spectra of       *)
(* Spectra, every one of which has a non-zero bin.                         *)
(***************************************************************************)
EXTENDS Integers, Sequences, FiniteSets

VARIABLES pc, error, fs, audio, win_len, total_frames, samples_per_frame,
          frame_idx, seg, mag, max_amp, note_list, a, b, n1, n2, raw_ratio,
          best_frac, total_weighted_complexity, total_weight, result

vars == <<pc, error, fs, audio, win_len, total_frames, samples_per_frame,
          frame_idx, seg, mag, max_amp, note_list, a, b, n1, n2, raw_ratio,
          best_frac, total_weighted_complexity, total_weight, result>>

(***************************************************************************)
(* Bounds of the model.                                                    *)
(***************************************************************************)
\* Short recordings: every sample rate 1..MaxRate, every buffer of at most
\* MaxLen samples.
MaxRate == 8
MaxLen == 5
\* Spectra: at most MaxActive non-zero bins, each of magnitude r*r, r in 1..MaxRoot.
MaxActive == 3
MaxRoot == 3

(***************************************************************************)
(* Tunable constants of the module (lines 15-26).                          *)
(***************************************************************************)
FPS == 4
\* WINDOW_SEC = 0.25 = 1 / WINDOW_SEC_DEN
WINDOW_SEC_DEN == 4
\* MIN_WEIGHT = 0.20 = 1 / MIN_WEIGHT_DEN
MIN_WEIGHT_DEN == 5
\* MIN_REL_AMP = 0.05 = 1 / MIN_REL_AMP_DEN
MIN_REL_AMP_DEN == 20
CENTS_TOL == 6
MAX_DEN_SEARCH == 32

NOTE_NAMES == <<"C", "C#", "D", "D#", "E", "F", "F#", "G", "G#", "A", "A#", "B">>

None == "None"
NaN == "nan"

(***************************************************************************)
(* Arithmetic helpers.                                                     *)
(***************************************************************************)
Max(x, y) == IF x >= y THEN x ELSE y
Min(x, y) == IF x <= y THEN x ELSE y

RECURSIVE GCD(_, _)
GCD(x, y) == IF y = 0 THEN x ELSE GCD(y, x % y)

LCM(x, y) == (x \div GCD(x, y)) * y

\* fractions.Fraction(n, d): the pair in lowest terms.
Fraction(n, d) == <<n \div GCD(n, d), d \div GCD(n, d)>>

\* Python's round() of the non-negative ratio num/den: to the nearest integer,
\* a tie going to the even one.
PyRound(num, den) ==
    LET q == num \div den
        r == num % den
    IN  IF 2 * r < den THEN q
        ELSE IF 2 * r > den THEN q + 1
        ELSE IF q % 2 = 0 THEN q ELSE q + 1

\* int() of the non-negative ratio num/den.
PyInt(num, den) == num \div den

\* The exact square root of a perfect square.
Sqrt(x) == CHOOSE r \in 0..x : r * r = x

(***************************************************************************)
(* Ratios.  A positive real is a pair <<num, den>> of positive integers.   *)
(***************************************************************************)
RatDiv(x, y) == Fraction(x[1] * y[2], x[2] * y[1])
RatGeq(x, y) == x[1] * y[2] >= y[1] * x[2]

(***************************************************************************)
(* cents(ratio) = 1200 * log2(ratio), used only in the test                *)
(* abs(cents(x)) <= CENTS_TOL, that is 2^(-1/200) <= x <= 2^(1/200).       *)
(* 2^(1/200) = 1.00347174850950... lies strictly between two consecutive   *)
(* convergents of its continued fraction, TolLo = 7226/7201 and            *)
(* TolHi = 289/288.  The test is decided with TolLo; CentsDecided says     *)
(* that x is not in the gap between the two, where TolLo could not tell.   *)
(***************************************************************************)
TolLoNum == 7226
TolLoDen == 7201
TolHiNum == 289
TolHiDen == 288

\* abs(cents(num/den)) <= CENTS_TOL
CentsWithinTol(num, den) ==
    Max(num, den) * TolLoDen <= Min(num, den) * TolLoNum

CentsDecided(num, den) ==
    \/ Max(num, den) * TolLoDen <= Min(num, den) * TolLoNum
    \/ Max(num, den) * TolHiDen >= Min(num, den) * TolHiNum

(***************************************************************************)
(* freq_to_note (lines 37-45).  semitones = 69 + 12*log2(freq/440) is      *)
(* rounded to idx; idx is found without logarithms: freq is doubled or     *)
(* halved into the octave [E0, 2*E0), E0 = 440 * 2^(-1/24) being the lower *)
(* edge of A4, and then compared with the twelve semitone edges            *)
(* 440 * 2^((j - 1/2)/12) of that octave, given in 1/10000 Hz.             *)
(***************************************************************************)
EdgeUnit == 10000
SemitoneEdges == <<4274741, 4528930, 4798234, 5083552, 5385836, 5706094,
                   6045396, 6404874, 6785728, 7189228, 7616722, 8069636>>
OctaveTop == 8549481

RECURSIVE OctaveOf(_, _, _)
\* <<o, n, d>>: n/d = (num/den) / 2^o lies in [E0, 2*E0).
OctaveOf(num, den, o) ==
    IF num * EdgeUnit < SemitoneEdges[1] * den THEN OctaveOf(2 * num, den, o - 1)
    ELSE IF num * EdgeUnit >= OctaveTop * den THEN OctaveOf(num, 2 * den, o + 1)
    ELSE <<o, num, den>>

\* idx = int(round(semitones))
NoteIndex(freq) ==
    LET f == OctaveOf(freq[1], freq[2], 0)
        j == Cardinality({i \in 1..12 : SemitoneEdges[i] * f[3] <= f[2] * EdgeUnit})
    IN  69 + 12 * f[1] + (j - 1)

\* The note name: the pair <<pitch class, octave>> for the string f"{name}{octave}".
freq_to_note(freq) ==
    IF freq[1] <= 0 THEN <<"-", 0>>
    ELSE LET idx == NoteIndex(freq)
         IN  <<NOTE_NAMES[(idx % 12) + 1], (idx \div 12) - 1>>

(***************************************************************************)
(* The ratio search of lines 149-160: the first d in 1..MAX_DEN_SEARCH     *)
(* whose n/d, n = round(raw_ratio * d), is within CENTS_TOL of raw_ratio.  *)
(***************************************************************************)
\* The test of line 156 for the candidate n/d.
Accepts(ratio, n, d) == CentsWithinTol(ratio[1] * d, ratio[2] * n)

RECURSIVE SearchFrom(_, _)
SearchFrom(ratio, d) ==
    IF d > MAX_DEN_SEARCH THEN None
    ELSE LET n == PyRound(ratio[1] * d, ratio[2])
         IN  IF n = 0 THEN SearchFrom(ratio, d + 1)
             ELSE IF Accepts(ratio, n, d) THEN Fraction(n, d)
             ELSE SearchFrom(ratio, d + 1)

\* The candidate n/d of the denominator d passes the test of line 156.
Qualifies(ratio, d) ==
    /\ PyRound(ratio[1] * d, ratio[2]) # 0
    /\ Accepts(ratio, PyRound(ratio[1] * d, ratio[2]), d)

\* x/y <= u/v for positive integers, by comparing the continued fractions, so
\* that no product leaves the integer range.
RECURSIVE RatLeq(_, _, _, _)
RatLeq(x, y, u, v) ==
    IF x \div y # u \div v THEN x \div y < u \div v
    ELSE IF x % y = 0 THEN TRUE
    ELSE IF u % v = 0 THEN FALSE
    ELSE RatLeq(v, u % v, y, x % y)

\* The tuning error of d's candidate is at most that of e's: the errors are
\* compared as the ratios larger/smaller of raw_ratio and the candidate.
ErrorLeq(ratio, d, e) ==
    LET nd == PyRound(ratio[1] * d, ratio[2])
        ne == PyRound(ratio[1] * e, ratio[2])
    IN  RatLeq(Max(ratio[1] * d, ratio[2] * nd), Min(ratio[1] * d, ratio[2] * nd),
               Max(ratio[1] * e, ratio[2] * ne), Min(ratio[1] * e, ratio[2] * ne))

\* A search for the best candidate instead of the first: the qualifying d of
\* least error.
RatioSearchBest(ratio) ==
    LET good == {d \in 1..MAX_DEN_SEARCH : Qualifies(ratio, d)}
    IN  IF good = {} THEN None
        ELSE LET d == CHOOSE x \in good : \A e \in good : ErrorLeq(ratio, x, e)
             IN  Fraction(PyRound(ratio[1] * d, ratio[2]), d)

RatioSearch(ratio) == SearchFrom(ratio, 1)

(***************************************************************************)
(* Recordings: what scipy.io.wavfile.read can return (line 63).  A sample  *)
(* is 0 or a non-zero value, written 1.  data is one-dimensional (mono) or *)
(* a sequence of rows <<left, right>> (stereo).                            *)
(***************************************************************************)
Samples == {0, 1}

SeqsUpTo(S, n) == UNION {[1..k -> S] : k \in 0..n}

\* Every short recording, mono and stereo (the right channel never silent).
ShortRecordings ==
    {[fs |-> r, ndim |-> c, left |-> s] :
        r \in 1..MaxRate, c \in {1, 2}, s \in SeqsUpTo(Samples, MaxLen)}

\* A buffer of len samples, non-zero exactly at the positions lo..hi.
Tone(len, lo, hi) == [i \in 1..len |-> IF lo <= i /\ i <= hi THEN 1 ELSE 0]

\* Sample rates with enough bins for peaks: 24 Hz (4 bins) over one or two
\* frames, 168 Hz (22 bins) and 336 Hz (43 bins) over one frame.
LongRates == {24, 168, 336}
TwoFrameRates == {24}

LongBuffers(rate) ==
    LET w == rate \div WINDOW_SEC_DEN
    IN  {Tone(len, 1, len) : len \in {w - 1, w, w + 1}}
        \cup {Tone(w, 1, 0), Tone(w, 1, 1)}
        \cup (IF rate \in TwoFrameRates
              THEN {Tone(2 * w, 1, 2 * w), Tone(2 * w, w + 1, 2 * w), Tone(2 * w, 1, w)}
              ELSE {})

LongRecordings ==
    UNION {{[fs |-> r, ndim |-> 1, left |-> s] : s \in LongBuffers(r)} : r \in LongRates}

Recordings == ShortRecordings \cup LongRecordings

\* data as wavfile.read returns it.
DataOf(rec) ==
    IF rec.ndim = 1 THEN rec.left
    ELSE [i \in 1..Len(rec.left) |-> <<rec.left[i], 1>>]

\* audio = data if data.ndim == 1 else data[:, 0]   (line 64)
LeftChannel(ndim, data) ==
    IF ndim = 1 THEN data ELSE [i \in 1..Len(data) |-> data[i][1]]

(***************************************************************************)
(* Framing (lines 66-71, 99-103).                                          *)
(***************************************************************************)
\* round() for int(): win_len = round(fs * WINDOW_SEC)
WinLenRounded(rate) == PyRound(rate, WINDOW_SEC_DEN)

\* win_len = int(fs * WINDOW_SEC)
WinLen(rate) == PyInt(rate, WINDOW_SEC_DEN)

\* samples_per_frame = int(fs / FPS)
SamplesPerFrame(rate) == PyInt(rate, FPS)

\* total_frames = int(len(audio) / fs * FPS)
TotalFrames(len, rate) == PyInt(len * FPS, rate)

\* The slice without its stop: audio[start:]
SliceToEnd(buf, start, n) ==
    IF start >= Len(buf) THEN <<>> ELSE [i \in 1..(Len(buf) - start) |-> buf[start + i]]

\* audio[start:start + n], a Python slice: it stops at the end of the buffer.
Slice(buf, start, n) ==
    LET stop == Min(start + n, Len(buf))
    IN  IF start >= stop THEN <<>> ELSE [i \in 1..(stop - start) |-> buf[start + i]]

\* np.pad(seg, (0, n - len(seg)))
PadRight(s, n) == [i \in 1..n |-> IF i <= Len(s) THEN s[i] ELSE 0]

\* Lines 101-103: the frame's segment.
FrameSegment(buf, start, n) ==
    LET s == Slice(buf, start, n)
    IN  IF Len(s) < n THEN PadRight(s, n) ELSE s

\* np.hanning(n)[i] = 0 (i from 0): only at both ends of a window of two or more.
HannIsZero(i, n) == n >= 2 /\ (i = 0 \/ i = n - 1)

\* seg * hann_win is all zero.
WindowedSilent(s) == \A i \in 1..Len(s) : s[i] = 0 \/ HannIsZero(i - 1, Len(s))

\* len(np.fft.rfft(x)) for len(x) = n
NumBins(n) == (n \div 2) + 1

(***************************************************************************)
(* Spectra.                                                                *)
(***************************************************************************)
Roots == 1..MaxRoot

RECURSIVE SquaresLCM(_)
SquaresLCM(r) == IF r = 0 THEN 1 ELSE LCM(r * r, SquaresLCM(r - 1))

\* The accumulators are kept in units of 1/Scale.
Scale == SquaresLCM(MaxRoot)

\* The bins that may be non-zero: the lowest two and the highest four.
ProbeBins(nb) == {k \in 0..(nb - 1) : k <= 1 \/ k >= nb - 4}

ZeroSpectrum(nb) == [k \in 0..(nb - 1) |-> 0]

Spectra(nb) ==
    UNION {{[k \in 0..(nb - 1) |-> IF k \in S THEN v[k] * v[k] ELSE 0] : v \in [S -> Roots]} :
           S \in {T \in SUBSET ProbeBins(nb) : T # {} /\ Cardinality(T) <= MaxActive}}

\* np.abs(np.fft.rfft(seg * hann_win))   (line 106)
SpectraOf(s) ==
    IF WindowedSilent(s) THEN {ZeroSpectrum(NumBins(Len(s)))} ELSE Spectra(NumBins(Len(s)))

RECURSIVE MaxUpTo(_, _)
MaxUpTo(m, k) == IF k = 0 THEN m[0] ELSE Max(m[k], MaxUpTo(m, k - 1))

\* mag.max()
MagMax(m, nb) == MaxUpTo(m, nb - 1)

\* mag.any()
MagAny(m, nb) == \E k \in 0..(nb - 1) : m[k] # 0

(***************************************************************************)
(* Peak detection (lines 116-128).  A peak is the record                   *)
(* [f: frequency, n: note name, w: weight], w = <<amp, max_amp>>.          *)
(***************************************************************************)
\* not (amp < MIN_REL_AMP * max_amp)
LoudEnough(amp, mx) == ~(amp * MIN_REL_AMP_DEN < mx)

\* A strict local maximum: ties are no peaks.
LocalMaxStrict(m, idx) == m[idx] > m[idx - 1] /\ m[idx] > m[idx + 1]

\* not (amp < mag[idx - 1] or amp < mag[idx + 1])
LocalMax(m, idx) == ~(m[idx] < m[idx - 1] \/ m[idx] < m[idx + 1])

\* freqs[idx] = idx * fs / win_len
FreqOf(idx, rate, wl) == <<idx * rate, wl>>

PeakAt(m, idx, rate, wl, mx) ==
    [f |-> FreqOf(idx, rate, wl), n |-> freq_to_note(FreqOf(idx, rate, wl)),
     w |-> <<m[idx], mx>>]

RECURSIVE RawPeaksFrom(_, _, _, _, _, _)
\* for idx in range(1, len(mag) - 1)
RawPeaksFrom(m, idx, nb, rate, wl, mx) ==
    IF idx >= nb - 1 THEN <<>>
    ELSE IF LoudEnough(m[idx], mx) /\ LocalMax(m, idx)
         THEN <<PeakAt(m, idx, rate, wl, mx)>> \o RawPeaksFrom(m, idx + 1, nb, rate, wl, mx)
         ELSE RawPeaksFrom(m, idx + 1, nb, rate, wl, mx)

RawPeaks(m, nb, rate, wl, mx) == RawPeaksFrom(m, 1, nb, rate, wl, mx)

\* w >= MIN_WEIGHT
HeavyEnough(p) == p.w[1] * MIN_WEIGHT_DEN >= p.w[2]

\* note_list = [(f, n, w) for f, n, w in raw_peaks if w >= MIN_WEIGHT]
NoteList(m, nb, rate, wl, mx) == SelectSeq(RawPeaks(m, nb, rate, wl, mx), HeavyEnough)

(***************************************************************************)
(* One pair of peaks (lines 134-165).                                      *)
(***************************************************************************)
\* `n1 is n2`: two strings built separately are never the same object.
SameNoteByIdentity(x, y) == FALSE

\* n1 == n2
SameNote(x, y) == x = y

\* The peak of the lower frequency first.
HighLowSwapped(p1, p2) == IF RatGeq(p1.f, p2.f) THEN <<p2, p1>> ELSE <<p1, p2>>

\* Lines 141-144: the peak of the higher frequency first (the first peak on a tie).
HighLow(p1, p2) == IF RatGeq(p1.f, p2.f) THEN <<p1, p2>> ELSE <<p2, p1>>

\* relevance = sqrt(w_hi * w_lo), in units of 1/Scale
Relevance(w_hi, w_lo) ==
    (Sqrt(w_hi[1] * w_lo[1]) * Scale) \div Sqrt(w_hi[2] * w_lo[2])

\* complexity = best_frac.numerator + best_frac.denominator
Complexity(frac) == frac[1] + frac[2]

\* `=` for `+=` in lines 164-165.
AccumulateAssigned(twc, tw, rel, frac) == <<rel * Complexity(frac), rel>>

\* Lines 164-165: the accumulators <<total_weighted_complexity, total_weight>>
\* after a pair of relevance rel matched to frac.
Accumulate(twc, tw, rel, frac) == <<twc + rel * Complexity(frac), tw + rel>>

\* The next pair of `for a in range(n): for b in range(a + 1, n)`; a = n - 1
\* when there is none.
NextPair(i, j, n) == IF j + 1 < n THEN <<i, j + 1>> ELSE <<i + 1, i + 2>>

(***************************************************************************)
(* The final score (lines 204-215).                                        *)
(***************************************************************************)
\* not total_weight
NoWeight(tw) == tw = 0

\* The score without the inversion: 10 * (total_weighted_complexity / total_weight).
ScoreNotInverted(twc, tw) == Fraction(10 * twc, tw)

\* consonance_score = 10 * (1.0 / (total_weighted_complexity / total_weight))
Score(twc, tw) == Fraction(10 * tw, twc)

(***************************************************************************)
(* main(wav_file).  pc is the position in main:                            *)
(*   "load"   before line 63          "setup"  before line 66              *)
(*   "frame"  at the head of the frame loop (line 99)                      *)
(*   "fft"    before line 106         "peaks"  before line 116             *)
(*   "pairs"  in the pair loop, (a, b) being the next pair (line 133)      *)
(*   "done"   main has returned result                                     *)
(*   "raised" main has ended in the exception error                        *)
(* A local of main that holds no value yet is None.  The locals of one     *)
(* frame are set back to None when the frame ends: every one of them is    *)
(* assigned again before it is read.                                       *)
(***************************************************************************)
Init ==
    /\ pc = "load"
    /\ error = None
    /\ fs = None
    /\ audio = None
    /\ win_len = None
    /\ total_frames = None
    /\ samples_per_frame = None
    /\ frame_idx = None
    /\ seg = None
    /\ mag = None
    /\ max_amp = None
    /\ note_list = None
    /\ a = None
    /\ b = None
    /\ n1 = None
    /\ n2 = None
    /\ raw_ratio = None
    /\ best_frac = None
    /\ total_weighted_complexity = None
    /\ total_weight = None
    /\ result = None

frameLocals == <<seg, mag, max_amp, note_list, a, b, n1, n2, raw_ratio, best_frac>>
setupLocals == <<win_len, total_frames, samples_per_frame>>
accumulators == <<total_weighted_complexity, total_weight>>

\* The frame is over (a `continue`, or the end of the loop body): next frame_idx.
NextFrame ==
    /\ pc' = "frame"
    /\ frame_idx' = frame_idx + 1
    /\ seg' = None
    /\ mag' = None
    /\ max_amp' = None
    /\ note_list' = None
    /\ a' = None
    /\ b' = None
    /\ n1' = None
    /\ n2' = None
    /\ raw_ratio' = None
    /\ best_frac' = None

\* Lines 63-64: wavfile.read returns (fs, data).
Load ==
    /\ pc = "load"
    /\ \E rec \in Recordings :
          /\ fs' = rec.fs
          /\ audio' = LeftChannel(rec.ndim, DataOf(rec))
    /\ pc' = "setup"
    /\ UNCHANGED <<error, setupLocals, frame_idx, frameLocals, accumulators, result>>

\* Line 63: wavfile.read raises (ValueError) on a file that is no RIFF/WAVE
\* file, a file of no bytes included; main does not catch it.
LoadFails ==
    /\ pc = "load"
    /\ pc' = "raised"
    /\ error' = "ValueError"
    /\ UNCHANGED <<fs, audio, setupLocals, frame_idx, frameLocals, accumulators, result>>

\* Lines 66-93.  np.fft.rfftfreq(win_len, 1 / fs) computes 1.0 / (win_len * d)
\* and raises ZeroDivisionError when win_len = 0.
Setup ==
    /\ pc = "setup"
    /\ win_len' = WinLen(fs)
    /\ IF WinLen(fs) = 0
       THEN /\ pc' = "raised"
            /\ error' = "ZeroDivisionError"
            /\ UNCHANGED <<total_frames, samples_per_frame, frame_idx, accumulators>>
       ELSE /\ total_frames' = TotalFrames(Len(audio), fs)
            /\ samples_per_frame' = SamplesPerFrame(fs)
            /\ total_weighted_complexity' = 0
            /\ total_weight' = 0
            /\ frame_idx' = 0
            /\ pc' = "frame"
            /\ UNCHANGED error
    /\ UNCHANGED <<fs, audio, frameLocals, result>>

\* Lines 99-103: the next frame's segment.
FrameStart ==
    /\ pc = "frame"
    /\ frame_idx < total_frames
    /\ seg' = FrameSegment(audio, frame_idx * samples_per_frame, win_len)
    /\ pc' = "fft"
    /\ UNCHANGED <<error, fs, audio, setupLocals, frame_idx, mag, max_amp, note_list,
                   a, b, n1, n2, raw_ratio, best_frac, accumulators, result>>

\* Lines 106-111: the magnitude spectrum; a silent frame is skipped.
Spectrum ==
    /\ pc = "fft"
    /\ \E m \in SpectraOf(seg) :
          IF ~MagAny(m, NumBins(win_len)) \/ MagMax(m, NumBins(win_len)) = 0
          THEN NextFrame
          ELSE /\ mag' = m
               /\ max_amp' = MagMax(m, NumBins(win_len))
               /\ pc' = "peaks"
               /\ UNCHANGED <<frame_idx, seg, note_list, a, b, n1, n2, raw_ratio, best_frac>>
    /\ UNCHANGED <<error, fs, audio, setupLocals, accumulators, result>>

\* Lines 116-128: the peaks; a frame with fewer than two is skipped.
DetectPeaks ==
    /\ pc = "peaks"
    /\ \E nl \in {NoteList(mag, NumBins(win_len), fs, win_len, max_amp)} :
          IF Len(nl) < 2
          THEN NextFrame
          ELSE /\ note_list' = nl
               /\ a' = 0
               /\ b' = 1
               /\ pc' = "pairs"
               /\ UNCHANGED <<frame_idx, seg, mag, max_amp, n1, n2, raw_ratio, best_frac>>
    /\ UNCHANGED <<error, fs, audio, setupLocals, accumulators, result>>

\* Lines 146-165: the pair of different notes p1, p2.
ScorePair(p1, p2) ==
    \E hl \in {HighLow(p1, p2)} :
    \E ratio \in {RatDiv(hl[1].f, hl[2].f)} :
    \E frac \in {RatioSearch(ratio)} :
       /\ raw_ratio' = ratio
       /\ best_frac' = frac
       /\ IF frac = None
          THEN UNCHANGED accumulators
          ELSE \E acc \in {Accumulate(total_weighted_complexity, total_weight,
                                      Relevance(hl[1].w, hl[2].w), frac)} :
                  /\ total_weighted_complexity' = acc[1]
                  /\ total_weight' = acc[2]

\* Lines 134-165: the pair (a, b).
PairStep ==
    /\ pc = "pairs"
    /\ a < Len(note_list) - 1
    /\ n1' = note_list[a + 1].n
    /\ n2' = note_list[b + 1].n
    /\ a' = NextPair(a, b, Len(note_list))[1]
    /\ b' = NextPair(a, b, Len(note_list))[2]
    /\ IF SameNote(note_list[a + 1].n, note_list[b + 1].n)
       THEN UNCHANGED <<raw_ratio, best_frac, accumulators>>
       ELSE ScorePair(note_list[a + 1], note_list[b + 1])
    /\ UNCHANGED <<pc, error, fs, audio, setupLocals, frame_idx, seg, mag, max_amp,
                   note_list, result>>

\* Lines 167-197: the visualisation, which reads mag and changes nothing main
\* returns; the loop body ends.
EndFrame ==
    /\ pc = "pairs"
    /\ a >= Len(note_list) - 1
    /\ NextFrame
    /\ UNCHANGED <<error, fs, audio, setupLocals, accumulators, result>>

\* Lines 199-215: the score.
Finish ==
    /\ pc = "frame"
    /\ frame_idx >= total_frames
    /\ result' = IF NoWeight(total_weight) THEN NaN
                 ELSE Score(total_weighted_complexity, total_weight)
    /\ pc' = "done"
    /\ UNCHANGED <<error, fs, audio, setupLocals, frame_idx, frameLocals, accumulators>>

Next ==
    \/ Load
    \/ LoadFails
    \/ Setup
    \/ FrameStart
    \/ Spectrum
    \/ DetectPeaks
    \/ PairStep
    \/ EndFrame
    \/ Finish

Spec == Init /\ [][Next]_vars

(***************************************************************************)
(* Where main is.                                                          *)
(***************************************************************************)
\* wavfile.read has returned: fs and audio hold values.
Loaded == pc # "load" /\ error # "ValueError"

\* Lines 66-93 have run: the framing and the accumulators hold values.
InLoop == pc \in {"frame", "fft", "peaks", "pairs", "done"}

\* A frame is being analysed: seg holds its segment.
InFrame == pc \in {"fft", "peaks", "pairs"}

Silent(buf) == \A i \in 1..Len(buf) : buf[i] = 0

(***************************************************************************)
(* C1.  For every valid PCM input main returns a finite non-negative       *)
(* number or NaN: once a recording of at least one sample is read, main    *)
(* never ends in an exception, and what it returns is NaN or a ratio       *)
(* num/den with num >= 0 and den > 0.                                      *)
(***************************************************************************)
C1_ScoreOrSentinel ==
    /\ (Loaded /\ Len(audio) > 0) => pc # "raised"
    /\ pc = "done" => \/ result = NaN
                      \/ result # NaN /\ result[1] >= 0 /\ result[2] > 0

(***************************************************************************)
(* C2.  An all-zero buffer of any length makes main return NaN without     *)
(* raising: whenever main has ended on a recording of one or more samples, *)
(* all zero, it has returned and the result is NaN.                        *)
(***************************************************************************)
C2_SilenceReturnsNaN ==
    (Loaded /\ Len(audio) > 0 /\ Silent(audio) /\ pc \in {"done", "raised"})
        => (pc = "done" /\ result = NaN)

(***************************************************************************)
(* C3.  After the frame loop the result is NaN if and only if              *)
(* total_weight = 0, and otherwise it equals                               *)
(* 10 / (total_weighted_complexity / total_weight); it is set once, when   *)
(* main returns.                                                           *)
(***************************************************************************)
C3_ScoreFromAccumulators ==
    /\ pc # "done" => result = None
    /\ pc = "done" =>
          /\ result # None
          /\ (result = NaN) <=> (total_weight = 0)
          /\ total_weight # 0 =>
                /\ total_weighted_complexity > 0
                /\ result[1] * total_weighted_complexity = 10 * total_weight * result[2]

\* main has returned a score that averages matches of different complexity.
C3_Witness ==
    /\ pc = "done"
    /\ total_weight > 0
    /\ result # NaN
    /\ total_weighted_complexity % total_weight # 0
    /\ result[1] * total_weighted_complexity = 10 * total_weight * result[2]

\* The parts of C4: the accepted denominator, the effect of a pair, the example.
C4_FirstQualifying ==
    (pc = "pairs" /\ raw_ratio # None) =>
        LET good == {d \in 1..MAX_DEN_SEARCH : Qualifies(raw_ratio, d)}
        IN  /\ raw_ratio[1] >= raw_ratio[2]
            /\ IF good = {} THEN best_frac = None
               ELSE \E d \in good :
                       /\ \A e \in good : d <= e
                       /\ best_frac # None
                       /\ best_frac = Fraction(PyRound(raw_ratio[1] * d, raw_ratio[2]), d)

C4_PairEffect ==
    (pc = "pairs" /\ pc' = "pairs" /\ n1' # n2') =>
        IF best_frac' = None
        THEN UNCHANGED accumulators
        ELSE /\ total_weight' > total_weight
             /\ total_weighted_complexity' - total_weighted_complexity
                    = (total_weight' - total_weight) * (best_frac'[1] + best_frac'[2])

C4_Fifth ==
    /\ RatioSearch(<<7499, 5000>>) = <<3, 2>>
    /\ Complexity(RatioSearch(<<7499, 5000>>)) = 5

(***************************************************************************)
(* C4.  The ratio search accepts the first (smallest) d in                 *)
(* 1..MAX_DEN_SEARCH whose n/d, n = round(raw_ratio * d), is within        *)
(* CENTS_TOL cents of raw_ratio, never a later one; a pair for which no d  *)
(* qualifies leaves the accumulators unchanged, and a matched pair adds    *)
(* its relevance times n + d of the reduced fraction; raw_ratio = 1.4998   *)
(* is matched to 3/2, of complexity 5.                                     *)
(***************************************************************************)
C4_RatioSearch == [](C4_FirstQualifying /\ C4_Fifth) /\ [][C4_PairEffect]_vars

\* A pair was matched at its first qualifying d although a later d qualifies
\* with a strictly smaller error.
C4_Witness ==
    /\ pc = "pairs"
    /\ raw_ratio # None
    /\ best_frac # None
    /\ \E d \in 1..MAX_DEN_SEARCH, e \in 1..MAX_DEN_SEARCH :
          /\ d < e
          /\ Qualifies(raw_ratio, d)
          /\ Qualifies(raw_ratio, e)
          /\ \A x \in 1..(d - 1) : ~Qualifies(raw_ratio, x)
          /\ ~ErrorLeq(raw_ratio, d, e)

\* A pair of different notes for which no denominator qualifies was discarded.
C4_DiscardReached ==
    pc = "pairs" /\ raw_ratio # None /\ best_frac = None /\ n1 # n2

\* C5 for one step of the pair loop.
C5_PairNames ==
    (pc = "pairs" /\ pc' = "pairs") =>
        /\ n1' = note_list[a + 1].n
        /\ n2' = note_list[b + 1].n
        /\ (note_list[a + 1].n = note_list[b + 1].n) => UNCHANGED accumulators
        /\ (accumulators' # accumulators) => n1' # n2'

(***************************************************************************)
(* C5.  Processing a pair of peaks of equal note names leaves both         *)
(* accumulators unchanged, whatever the frequencies and weights; only a    *)
(* pair of different note names changes them.  n1 and n2 are the note      *)
(* names of the pair just processed.                                       *)
(***************************************************************************)
C5_SameNoteSkipped == [][C5_PairNames]_vars

\* The only pair of the frame, two peaks of one note whose ratio the search
\* would have matched, was skipped.
C5_Witness ==
    /\ pc = "pairs"
    /\ Len(note_list) = 2
    /\ n1 # None
    /\ n1 = n2
    /\ note_list[1].f # note_list[2].f
    /\ RatioSearch(RatDiv(note_list[2].f, note_list[1].f)) # None
    /\ total_weight = 0

\* The parts of C6: the values, and the steps.
C6_NonNegative ==
    /\ InLoop => total_weight >= 0 /\ total_weighted_complexity >= 0
    /\ (pc = "frame" /\ frame_idx = 0) =>
          total_weight = 0 /\ total_weighted_complexity = 0

C6_NoDecrease ==
    InLoop => /\ total_weight' >= total_weight
              /\ total_weighted_complexity' >= total_weighted_complexity

(***************************************************************************)
(* C6.  total_weight >= 0 and total_weighted_complexity >= 0 throughout;   *)
(* both are zero before the first frame; no step decreases or resets       *)
(* either of them.                                                         *)
(***************************************************************************)
C6_Accumulators == []C6_NonNegative /\ [][C6_NoDecrease]_vars

\* In the second frame, after pairs of both frames were added.
C6_Witness ==
    /\ pc = "pairs"
    /\ frame_idx >= 1
    /\ total_weight > Scale
    /\ total_weighted_complexity > total_weight

C7_Truncated ==
    /\ (Loaded /\ pc # "setup") =>
          /\ WINDOW_SEC_DEN * win_len <= fs
          /\ fs < WINDOW_SEC_DEN * (win_len + 1)
    /\ InLoop =>
          /\ win_len >= 1
          /\ FPS * samples_per_frame <= fs
          /\ fs < FPS * (samples_per_frame + 1)
          /\ total_frames * fs <= FPS * Len(audio)
          /\ FPS * Len(audio) < (total_frames + 1) * fs
          /\ 0 <= frame_idx
          /\ frame_idx <= total_frames
    /\ InFrame =>
          /\ frame_idx < total_frames
          /\ \A i \in 1..Len(seg) :
                (frame_idx * samples_per_frame + i <= Len(audio))
                    => seg[i] = audio[frame_idx * samples_per_frame + i]
    /\ pc = "done" => frame_idx = total_frames

C7_InOrder ==
    InLoop => \/ frame_idx' = frame_idx /\ (pc' = "frame" => pc = "frame")
              \/ frame_idx' = frame_idx + 1 /\ InFrame /\ pc' = "frame"

C8_ShortBufferPadded ==
    (pc = "done" /\ Len(audio) > 0 /\ Len(audio) < win_len) => frame_idx >= 1

\* The parts of the amended C8: the frames, and the buffer.
C8_WholeFrames ==
    /\ InFrame =>
          /\ Len(seg) = win_len
          /\ frame_idx * samples_per_frame + win_len <= Len(audio)
          /\ \A i \in 1..win_len : seg[i] = audio[frame_idx * samples_per_frame + i]
    /\ pc \in {"peaks", "pairs"} => DOMAIN mag = 0..(win_len \div 2)
    /\ (pc = "done" /\ Len(audio) < win_len) => (frame_idx = 0 /\ result = NaN)

C8_BufferKept == Loaded => audio' = audio

(***************************************************************************)
(* C8 amended.  Every frame handed to the spectral analysis has exactly    *)
(* win_len samples and its spectrum win_len \div 2 + 1 bins; the buffer is *)
(* never modified; every frame lies wholly inside the buffer, so that no   *)
(* frame is extended with zeros; a buffer shorter than one window length   *)
(* gives no frame at all, and main returns NaN for it.                     *)
(***************************************************************************)
C8_Frames == []C8_WholeFrames /\ [][C8_BufferKept]_vars

\* The last frame of a buffer that goes on after it: the samples left over
\* are fewer than a window and belong to no frame.
C8_Witness ==
    /\ pc = "fft"
    /\ win_len >= 2
    /\ frame_idx = total_frames - 1
    /\ Len(audio) > total_frames * samples_per_frame
    /\ Len(seg) = win_len

\* main has returned on a buffer shorter than one window length.
C8_ShortBufferReached ==
    pc = "done" /\ Len(audio) > 0 /\ Len(audio) < win_len

(***************************************************************************)
(* C9.  A file that cannot be parsed, or that holds no samples, ends in an *)
(* error propagated to the caller: no score, neither a number nor NaN, is  *)
(* returned for it.                                                        *)
(***************************************************************************)
C9_NoScoreForBadFile ==
    /\ error = "ValueError" => (pc = "raised" /\ result = None)
    /\ (Loaded /\ Len(audio) = 0) => (pc # "done" /\ result = None)

\* The parts of C10: the peaks by their definition, and the frames of few peaks.
PeakBins ==
    {k \in 1..(NumBins(win_len) - 2) :
        /\ mag[k] * MIN_REL_AMP_DEN >= max_amp
        /\ mag[k] >= mag[k - 1]
        /\ mag[k] >= mag[k + 1]
        /\ mag[k] * MIN_WEIGHT_DEN >= max_amp}

\* The bin of a peak: its frequency is k * fs / win_len.
BinOf(p) == p.f[1] \div fs

C10_PeakSet ==
    /\ pc \in {"peaks", "pairs"} =>
          /\ max_amp > 0
          /\ \A k \in DOMAIN mag : mag[k] <= max_amp
          /\ \E k \in DOMAIN mag : mag[k] = max_amp
    /\ pc = "pairs" =>
          /\ Len(note_list) >= 2
          /\ Len(note_list) = Cardinality(PeakBins)
          /\ {BinOf(note_list[i]) : i \in 1..Len(note_list)} = PeakBins
          /\ \A i \in 1..Len(note_list) :
                /\ note_list[i].f = <<BinOf(note_list[i]) * fs, win_len>>
                /\ note_list[i].w = <<mag[BinOf(note_list[i])], max_amp>>
                /\ note_list[i].w[1] >= 0
                /\ note_list[i].w[1] <= note_list[i].w[2]
          /\ \A i \in 1..(Len(note_list) - 1) :
                BinOf(note_list[i]) < BinOf(note_list[i + 1])

C10_FewPeaks ==
    pc = "peaks" =>
        IF Cardinality(PeakBins) < 2
        THEN pc' # "pairs" /\ UNCHANGED accumulators
        ELSE pc' # "frame"

(***************************************************************************)
(* C10.  In a non-silent frame the peaks used for the pairs are exactly    *)
(* the bins k, the first and the last excluded, with                       *)
(* mag[k] >= MIN_REL_AMP * max_amp, mag[k] >= mag[k-1], mag[k] >= mag[k+1] *)
(* and mag[k] / max_amp >= MIN_WEIGHT, in increasing order of k, each with *)
(* the weight mag[k] / max_amp in [0, 1]; a frame with fewer than two such *)
(* bins ends without a change of the accumulators.                         *)
(***************************************************************************)
C10_Peaks == []C10_PeakSet /\ [][C10_FewPeaks]_vars

\* A frame with two adjacent peaks of equal magnitude and a local maximum
\* that is loud enough for a candidate and too light for a peak.
C10_Witness ==
    /\ pc = "pairs"
    /\ \E k \in PeakBins : k + 1 \in PeakBins
    /\ \E k \in 1..(NumBins(win_len) - 2) :
          /\ mag[k] * MIN_REL_AMP_DEN >= max_amp
          /\ mag[k] >= mag[k - 1]
          /\ mag[k] >= mag[k + 1]
          /\ mag[k] * MIN_WEIGHT_DEN < max_amp

\* The numerator the search tries at the denominator d: n = round(raw_ratio * d).
C11_Numerator(d) == PyRound(raw_ratio[1] * d, raw_ratio[2])

\* The parts of C11: the accepted candidate is in lowest terms, and every
\* reducible candidate that passes the test has its reduced form tried, and
\* passing, at the smaller denominator.
C11_LowestTerms ==
    (pc = "pairs" /\ raw_ratio # None /\ best_frac # None) =>
        /\ \E d \in 1..MAX_DEN_SEARCH :
              /\ Qualifies(raw_ratio, d)
              /\ \A e \in 1..(d - 1) : ~Qualifies(raw_ratio, e)
              /\ C11_Numerator(d) >= 1
              /\ GCD(C11_Numerator(d), d) = 1
              /\ best_frac = <<C11_Numerator(d), d>>
              /\ Complexity(best_frac) = C11_Numerator(d) + d
              /\ Complexity(best_frac) >= 2
        /\ \A d \in 1..MAX_DEN_SEARCH :
              (Qualifies(raw_ratio, d) /\ GCD(C11_Numerator(d), d) > 1) =>
                 \E g \in {GCD(C11_Numerator(d), d)} :
                    /\ C11_Numerator(d \div g) = C11_Numerator(d) \div g
                    /\ Qualifies(raw_ratio, d \div g)

\* raw_ratio is at least 1, so no denominator has the numerator 0.
C11_NoZeroNumerator ==
    (pc = "pairs" /\ raw_ratio # None) =>
        /\ raw_ratio[2] > 0
        /\ raw_ratio[1] >= raw_ratio[2]
        /\ \A d \in 1..MAX_DEN_SEARCH : C11_Numerator(d) >= 1

\* A matched pair adds its relevance times at least 2.
C11_Added ==
    (pc = "pairs" /\ pc' = "pairs" /\ n1' # n2' /\ best_frac' # None) =>
        /\ total_weight' > total_weight
        /\ total_weighted_complexity' - total_weighted_complexity
               >= 2 * (total_weight' - total_weight)

(***************************************************************************)
(* C11.  Whenever the ratio search accepts a denominator d with            *)
(* n = round(raw_ratio * d), n >= 1 and gcd(n, d) = 1: a reducible         *)
(* candidate that passes the test passes it, reduced, at the smaller       *)
(* denominator.  So the complexity of the accepted fraction is n + d for   *)
(* the accepted d and at least 2, a matched pair adds at least twice its   *)
(* relevance, and since raw_ratio >= 1 no denominator of a pair that       *)
(* reaches the search has the numerator 0.                                 *)
(***************************************************************************)
C11_Reduced == [](C11_LowestTerms /\ C11_NoZeroNumerator) /\ [][C11_Added]_vars

\* A pair was matched at a denominator d > 1, and a later denominator passes
\* the test too with a reducible candidate.
C11_Witness ==
    /\ pc = "pairs"
    /\ raw_ratio # None
    /\ best_frac # None
    /\ best_frac[2] > 1
    /\ \E e \in 1..MAX_DEN_SEARCH :
          /\ e > best_frac[2]
          /\ Qualifies(raw_ratio, e)
          /\ GCD(C11_Numerator(e), e) > 1

====
